---- MODULE Spec2Model ----
(***************************************************************************)
(* Mood-journal backend: the mood-entry store (create / update / delete /  *)
(* get / list), the protect middleware and the streak calculator, as a     *)
(* state machine over the two collections (MoodEntry, User).               *)
(*                                                                         *)
(* Every handler is written as a pure step function over a "world" record  *)
(* (the two collections) and the request's local variables; one step is    *)
(* the code between two awaits.  Spec runs each handler to completion in   *)
(* one action (requests one after another); SpecConc interleaves the       *)
(* steps of two createEntry requests; SpecStreak is the creation path of   *)
(* one user over a longer calendar; SpecFail is that path with storage     *)
(* calls that may reject; SpecRace interleaves the createEntry requests of *)
(* one user over a longer calendar.                                        *)
(***************************************************************************)
EXTENDS Integers, Sequences, FiniteSets, TLC

VARIABLES now, entries, nextId, users, created, req

vars == <<now, entries, nextId, users, created, req>>

-----------------------------------------------------------------------------
(* Bounds of the model *)

TicksPerDay == 2
DaysPerMonth == 2
MonthsPerYear == 2
MaxTime == 3
MaxEntries == 2
StreakMaxTime == 9
StreakMaxEntries == 4
RaceMaxTime == 8
RaceMaxEntries == 5

(* Program constants *)

MaxLimit == 100
DefaultLimit == 10
DefaultPage == 1

DefaultDays == 30
MinIntensity == 1
MaxIntensity == 10

NoDate == -1
NotFinite == -1
NoParam == -1

Users == {"A", "B"}
UserIds == Users \cup {"ghost"}
Moods == {"happy", "sad"}
Reqs == {1, 2}

-----------------------------------------------------------------------------
(* Calendar arithmetic on timestamps (server-local time) *)

Day(t) == t \div TicksPerDay

\* d.setHours(0, 0, 0, 0)
StartOfDay(t) == Day(t) * TicksPerDay

\* d.setDate(d.getDate() + 1) on a midnight
NextDay(t) == StartOfDay(t) + TicksPerDay

Max(a, b) == IF a >= b THEN a ELSE b

Min(a, b) == IF a <= b THEN a ELSE b

-----------------------------------------------------------------------------
(* The stored documents *)

NewStreak == [current |-> 0, longest |-> 0, lastEntryDate |-> NoDate]

NewUser == [isActive |-> TRUE, streak |-> NewStreak]

World == [entries |-> entries, nextId |-> nextId, users |-> users,
          created |-> created]

Idle == [op |-> "none", pc |-> "idle", user |-> "none", id |-> 0,
         date |-> NoDate, mood |-> "none", owner |-> "none",
         page |-> 0, limit |-> 0, startDate |-> NoDate, endDate |-> NoDate,
         status |-> 0, data |-> <<>>, total |-> 0, pages |-> 0,
         doc |-> NewStreak, mod |-> {}, streak |-> 0,
         token |-> [kind |-> "none", sub |-> "none"], msg |-> "none",
         intensity |-> 0, fail |-> "none", days |-> 0, tie |-> "none",
         avg |-> 0, year |-> NoParam, month |-> NoParam]

Out(w, rq) == [w |-> w, rq |-> rq]

\* res.status(code).json({ message })
Respond(rq, code, msg) ==
    [rq EXCEPT !.pc = "respond", !.status = code, !.msg = msg]

-----------------------------------------------------------------------------
(* protect: the bearer token must verify and name an existing, active user.
   The result is req.user, or "none" when the middleware answers 401. *)

Tokens ==
    {[kind |-> "none", sub |-> "none"]} \cup
    {[kind |-> k, sub |-> "A"] : k \in {"invalid", "expired"}} \cup
    {[kind |-> "valid", sub |-> u] : u \in UserIds}

\* protect without the active-flag test
protectIgnoresActive(w, tok) ==
    IF tok.kind # "valid" THEN "none"
    ELSE IF tok.sub \notin Users THEN "none"
    ELSE tok.sub

protect(w, tok) ==
    IF tok.kind = "none" THEN "none"
    ELSE IF tok.kind # "valid" THEN "none"
    ELSE IF tok.sub \notin Users THEN "none"
    ELSE IF ~w.users[tok.sub].isActive THEN "none"
    ELSE tok.sub

-----------------------------------------------------------------------------
(* userSchema.methods.updateStreak, on the streak triple at time t *)

\* updateStreak counting any earlier day as the day before
updateStreakNoGap(s, t) ==
    IF s.lastEntryDate = NoDate
    THEN [current |-> 1, longest |-> 1, lastEntryDate |-> t]
    ELSE IF Day(s.lastEntryDate) < Day(t)
    THEN [current |-> s.current + 1,
          longest |-> Max(s.longest, s.current + 1),
          lastEntryDate |-> t]
    ELSE [current |-> s.current, longest |-> s.longest, lastEntryDate |-> t]

\* updateStreak whose reset after a gap starts longest over as well
updateStreakResetsLongest(s, t) ==
    IF s.lastEntryDate = NoDate
    THEN [current |-> 1, longest |-> 1, lastEntryDate |-> t]
    ELSE IF Day(s.lastEntryDate) = Day(t - TicksPerDay)
    THEN [current |-> s.current + 1,
          longest |-> Max(s.longest, s.current + 1),
          lastEntryDate |-> t]
    ELSE IF Day(s.lastEntryDate) # Day(t)
    THEN [current |-> 1, longest |-> 1, lastEntryDate |-> t]
    ELSE [current |-> s.current, longest |-> s.longest, lastEntryDate |-> t]

\* updateStreak counting a second creation of the day as one more day
updateStreakCountsSameDay(s, t) ==
    IF s.lastEntryDate = NoDate
    THEN [current |-> 1, longest |-> 1, lastEntryDate |-> t]
    ELSE IF Day(s.lastEntryDate) = Day(t - TicksPerDay)
    THEN [current |-> s.current + 1,
          longest |-> Max(s.longest, s.current + 1),
          lastEntryDate |-> t]
    ELSE IF Day(s.lastEntryDate) # Day(t)
    THEN [current |-> 1, longest |-> s.longest, lastEntryDate |-> t]
    ELSE [current |-> s.current + 1,
          longest |-> Max(s.longest, s.current + 1),
          lastEntryDate |-> t]

updateStreak(s, t) ==
    LET today == t
        yesterday == t - TicksPerDay
    IN  IF s.lastEntryDate = NoDate
        THEN [current |-> 1, longest |-> 1, lastEntryDate |-> today]
        ELSE IF Day(s.lastEntryDate) = Day(yesterday)
        THEN [current |-> s.current + 1,
              longest |-> Max(s.longest, s.current + 1),
              lastEntryDate |-> today]
        ELSE IF Day(s.lastEntryDate) # Day(today)
        THEN [current |-> 1, longest |-> s.longest, lastEntryDate |-> today]
        ELSE [current |-> s.current, longest |-> s.longest,
              lastEntryDate |-> today]

\* the paths of the user document that an assignment changed (what save() writes)
Modified(old, new) == {f \in {"current", "longest", "lastEntryDate"} : old[f] # new[f]}

\* user.save({ validateBeforeSave: false }): $set of the modified paths
SaveStreak(stored, doc, mod) ==
    [current |-> IF "current" \in mod THEN doc.current ELSE stored.current,
     longest |-> IF "longest" \in mod THEN doc.longest ELSE stored.longest,
     lastEntryDate |-> IF "lastEntryDate" \in mod THEN doc.lastEntryDate
                       ELSE stored.lastEntryDate]

-----------------------------------------------------------------------------
(* Queries on the MoodEntry collection *)

\* the day check comparing the stored timestamp with the clock itself
EntriesOnDayExact(w, u, t) == {e \in w.entries : e.user = u /\ e.date = t}

\* findOne({ user, date: { $gte: start of day, $lt: next day } })
EntriesOnDay(w, u, t) ==
    {e \in w.entries : e.user = u /\ e.date >= StartOfDay(t) /\ e.date < NextDay(t)}

\* the re-check of an update that does not leave out the entry itself
OthersOnDayWithSelf(w, u, t, id) == EntriesOnDay(w, u, t)

\* findOne({ user, date: { $gte, $lt }, _id: { $ne: id } })
OthersOnDay(w, u, t, id) == {e \in EntriesOnDay(w, u, t) : e.id # id}

\* the lookup by id alone, without the owner
OwnedEntryById(w, id, u) == {e \in w.entries : e.id = id}

\* findOne({ _id, user })
OwnedEntry(w, id, u) == {e \in w.entries : e.id = id /\ e.user = u}

\* the unique index { user: 1, date: 1 }: exact timestamps
DuplicateKey(w, u, d, id) ==
    \E e \in w.entries : e.user = u /\ e.date = d /\ e.id # id

\* moodEntrySchema.pre("save"): the date must not be later than the clock
FutureDate(d, t) == d > t

\* getEntries' query: { user, date: { $gte: startDate, $lte: endDate } }
Matching(w, rq) ==
    {e \in w.entries :
        /\ e.user = rq.user
        /\ (rq.startDate = NoDate \/ e.date >= rq.startDate)
        /\ (rq.endDate = NoDate \/ e.date <= rq.endDate)}

\* .sort({ date: -1 })
RECURSIVE SortDesc(_)
SortDesc(S) ==
    IF S = {} THEN <<>>
    ELSE LET e == CHOOSE x \in S : \A y \in S : x.date >= y.date
         IN  <<e>> \o SortDesc(S \ {e})

\* the page window skipping page * limit documents
PageOfSkipsPage(sorted, page, limit) ==
    LET skip == page * limit
        last == IF limit = 0 THEN Len(sorted) ELSE Min(Len(sorted), skip + limit)
    IN  SubSeq(sorted, skip + 1, last)

\* .limit(limit * 1).skip((page - 1) * limit); a limit of 0 is no limit
PageOf(sorted, page, limit) ==
    LET skip == (page - 1) * limit
        last == IF limit = 0 THEN Len(sorted) ELSE Min(Len(sorted), skip + limit)
    IN  SubSeq(sorted, skip + 1, last)

\* Math.ceil(total / limit); a division by zero is not a finite number
PagesOf(total, limit) ==
    IF limit = 0 THEN NotFinite ELSE (total + limit - 1) \div limit

\* $match { user, date: { $gte: now - days } } of getMoodStats
InWindow(w, u, days, t) ==
    {e \in w.entries : e.user = u /\ e.date >= t - days * TicksPerDay}

RECURSIVE SumIntensity(_)
SumIntensity(S) ==
    IF S = {} THEN 0
    ELSE LET e == CHOOSE x \in S : TRUE
         IN  e.moodIntensity + SumIntensity(S \ {e})

\* { $round: [x, 2] } of sum / n, in hundredths: halves go to the even digit
Round2(sum, n) ==
    LET q == (100 * sum) \div n
        r == (100 * sum) % n
    IN  IF 2 * r < n THEN q
        ELSE IF 2 * r > n THEN q + 1
        ELSE IF q % 2 = 0 THEN q ELSE q + 1

\* Math.round(x * 10) / 10 of sum / n, in tenths: halves go up
Round1(sum, n) == (20 * sum + n) \div (2 * n)

\* $group by mood with $sum and $avg, then $project
MoodRows(S) ==
    {[mood |-> m,
      count |-> Cardinality({e \in S : e.mood = m}),
      avgIntensity |-> Round2(SumIntensity({e \in S : e.mood = m}),
                              Cardinality({e \in S : e.mood = m}))] :
        m \in {e.mood : e \in S}}

\* $sort { count: -1 }; rows of equal count come in the order the server
\* happens to produce, here the row of mood tie first
RECURSIVE SortByCount(_, _)
SortByCount(R, tie) ==
    IF R = {} THEN <<>>
    ELSE LET top == {x \in R : \A y \in R : x.count >= y.count}
             r == IF \E x \in top : x.mood = tie
                  THEN CHOOSE x \in top : x.mood = tie
                  ELSE CHOOSE x \in top : TRUE
         IN  <<r>> \o SortByCount(R \ {r}, tie)

\* moodEntrySchema.statics.getMoodStats
getMoodStats(w, u, days, t, tie) == SortByCount(MoodRows(InWindow(w, u, days, t)), tie)

\* the calendar of the model: months of DaysPerMonth days
TicksPerMonth == DaysPerMonth * TicksPerDay

\* new Date(year, month - 1, 1), month counted from 1
MonthStart(year, month) == (year * MonthsPerYear + (month - 1)) * TicksPerMonth

\* new Date(year, month, 0): the last day of the month, at midnight
MonthEnd(year, month) == MonthStart(year, month + 1) - TicksPerDay

\* now.getFullYear()
YearOf(t) == t \div (MonthsPerYear * TicksPerMonth)

\* now.getMonth() + 1
MonthOf(t) == ((t \div TicksPerMonth) % MonthsPerYear) + 1

\* moodEntrySchema.statics.getEntriesByDateRange
getEntriesByDateRange(w, u, startDate, endDate) ==
    SortDesc({e \in w.entries :
                e.user = u /\ e.date >= startDate /\ e.date <= endDate})

\* one row of calendarData; formattedDate is the entry's calendar day
CalendarRow(e) == [date |-> Day(e.date), mood |-> e.mood,
                   intensity |-> e.moodIntensity]

-----------------------------------------------------------------------------
(* The handlers, one step (the code up to the next await) at a time *)

\* validationResult(req).isEmpty() for moodEntryValidation
ValidBody(rq) ==
    /\ rq.mood \in Moods
    /\ rq.intensity \in MinIntensity..MaxIntensity

createEntry(w, rq, t) ==
    CASE rq.pc = "c_check" ->
            IF ~ValidBody(rq)
            THEN Out(w, Respond(rq, 400, "Validation failed"))
            ELSE IF rq.fail = rq.pc
            THEN Out(w, Respond(rq, 500, "Server Error"))
            ELSE IF EntriesOnDay(w, rq.user, t) # {}
            THEN Out(w, Respond(rq, 400, "Mood entry already exists for today"))
            ELSE Out(w, [rq EXCEPT !.pc = "c_insert"])
      [] rq.pc = "c_insert" ->
            LET date == IF rq.date = NoDate THEN t ELSE rq.date
                entry == [id |-> w.nextId, user |-> rq.user, date |-> date,
                          mood |-> rq.mood, moodIntensity |-> rq.intensity]
            IN  IF FutureDate(date, t)
                THEN Out(w, Respond(rq, 500, "Entry date cannot be in the future"))
                ELSE IF rq.fail = rq.pc
                THEN Out(w, Respond(rq, 500, "Server Error"))
                ELSE IF DuplicateKey(w, rq.user, date, 0)
                THEN Out(w, Respond(rq, 400, "is already taken"))
                ELSE Out([w EXCEPT !.entries = @ \cup {entry},
                                   !.nextId = @ + 1,
                                   !.created[rq.user] = Append(@, Day(t))],
                         [rq EXCEPT !.pc = "c_read", !.data = <<entry>>])
      [] rq.pc = "c_read" ->
            LET stored == w.users[rq.user].streak
                doc == updateStreak(stored, t)
            IN  IF rq.fail = rq.pc
                THEN Out(w, Respond(rq, 500, "Server Error"))
                ELSE Out(w, [rq EXCEPT !.pc = "c_save", !.doc = doc,
                                       !.mod = Modified(stored, doc),
                                       !.streak = doc.current])
      [] rq.pc = "c_save" ->
            IF rq.fail = rq.pc
            THEN Out(w, Respond(rq, 500, "Server Error"))
            ELSE Out([w EXCEPT !.users[rq.user].streak =
                                    SaveStreak(@, rq.doc, rq.mod)],
                     Respond(rq, 201, "Mood entry created successfully"))

\* findByIdAndUpdate(id, req.body, { new: true, runValidators: true })
ApplyUpdate(e, rq) ==
    [id |-> e.id,
     user |-> IF rq.owner = "none" THEN e.user ELSE rq.owner,
     date |-> IF rq.date = NoDate THEN e.date ELSE rq.date,
     mood |-> rq.mood,
     moodIntensity |-> rq.intensity]

updateEntry(w, rq, t) ==
    CASE rq.pc = "u_find" ->
            IF ~ValidBody(rq)
            THEN Out(w, Respond(rq, 400, "Validation failed"))
            ELSE IF OwnedEntry(w, rq.id, rq.user) = {}
            THEN Out(w, Respond(rq, 404, "Mood entry not found"))
            ELSE IF rq.date # NoDate
            THEN Out(w, [rq EXCEPT !.pc = "u_check"])
            ELSE Out(w, [rq EXCEPT !.pc = "u_write"])
      [] rq.pc = "u_check" ->
            IF OthersOnDay(w, rq.user, rq.date, rq.id) # {}
            THEN Out(w, Respond(rq, 400,
                        "Mood entry already exists for the selected date"))
            ELSE Out(w, [rq EXCEPT !.pc = "u_write"])
      [] rq.pc = "u_write" ->
            LET found == {e \in w.entries : e.id = rq.id}
            IN  IF found = {}
                THEN Out(w, Respond(rq, 200, "Mood entry updated successfully"))
                ELSE LET old == CHOOSE e \in found : TRUE
                         new == ApplyUpdate(old, rq)
                     IN  IF DuplicateKey(w, new.user, new.date, new.id)
                         THEN Out(w, Respond(rq, 400, "is already taken"))
                         ELSE Out([w EXCEPT !.entries = (@ \ {old}) \cup {new}],
                                  Respond([rq EXCEPT !.data = <<new>>], 200,
                                          "Mood entry updated successfully"))

\* deleteEntry taking the deleted entry's day back out of the streak
deleteEntryResetsStreak(w, rq, t) ==
    CASE rq.pc = "d_find" ->
            IF OwnedEntry(w, rq.id, rq.user) = {}
            THEN Out(w, Respond(rq, 404, "Mood entry not found"))
            ELSE Out(w, [rq EXCEPT !.pc = "d_delete"])
      [] rq.pc = "d_delete" ->
            Out([w EXCEPT !.entries = {e \in @ : e.id # rq.id},
                          !.users[rq.user].streak = NewStreak],
                Respond(rq, 200, "Mood entry deleted successfully"))

deleteEntry(w, rq, t) ==
    CASE rq.pc = "d_find" ->
            IF OwnedEntry(w, rq.id, rq.user) = {}
            THEN Out(w, Respond(rq, 404, "Mood entry not found"))
            ELSE Out(w, [rq EXCEPT !.pc = "d_delete"])
      [] rq.pc = "d_delete" ->
            Out([w EXCEPT !.entries = {e \in @ : e.id # rq.id}],
                Respond(rq, 200, "Mood entry deleted successfully"))

getEntry(w, rq, t) ==
    CASE rq.pc = "g_find" ->
            IF OwnedEntry(w, rq.id, rq.user) = {}
            THEN Out(w, Respond(rq, 404, "Mood entry not found"))
            ELSE Out(w, Respond([rq EXCEPT !.data =
                                    <<CHOOSE e \in OwnedEntry(w, rq.id, rq.user) : TRUE>>],
                                200, "none"))

getEntries(w, rq, t) ==
    CASE rq.pc = "l_find" ->
            IF (rq.page - 1) * rq.limit < 0
            THEN Out(w, Respond(rq, 500, "Server Error"))
            ELSE Out(w, [rq EXCEPT !.pc = "l_count",
                                   !.data = PageOf(SortDesc(Matching(w, rq)),
                                                   rq.page, rq.limit)])
      [] rq.pc = "l_count" ->
            LET total == Cardinality(Matching(w, rq))
            IN  Out(w, Respond([rq EXCEPT !.total = total,
                                          !.pages = PagesOf(total, rq.limit)],
                               200, "none"))

\* the activity statistics read entries only and are left out of the response
getStats(w, rq, t) ==
    CASE rq.pc = "s_mood" ->
            Out(w, [rq EXCEPT !.pc = "s_user",
                              !.data = getMoodStats(w, rq.user, rq.days, t, rq.tie)])
      [] rq.pc = "s_user" ->
            Out(w, [rq EXCEPT !.pc = "s_avg", !.doc = w.users[rq.user].streak])
      [] rq.pc = "s_avg" ->
            LET S == InWindow(w, rq.user, rq.days, t)
            IN  Out(w, Respond([rq EXCEPT !.avg =
                                    IF S = {} THEN 0
                                    ELSE Round1(SumIntensity(S), Cardinality(S))],
                               200, "none"))

getCalendar(w, rq, t) ==
    CASE rq.pc = "k_find" ->
            LET given == rq.year # NoParam /\ rq.month # NoParam
                y == IF given THEN rq.year ELSE YearOf(t)
                m == IF given THEN rq.month ELSE MonthOf(t)
                startDate == MonthStart(y, m)
                endDate == MonthEnd(y, m)
                found == getEntriesByDateRange(w, rq.user, startDate, endDate)
            IN  Out(w, Respond([rq EXCEPT !.startDate = startDate,
                                          !.endDate = endDate,
                                          !.data = [i \in 1..Len(found) |->
                                                        CalendarRow(found[i])]],
                               200, "none"))

\* PUT /auth/deactivate: clears the caller's active flag
deactivateAccount(w, rq, t) ==
    CASE rq.pc = "x_deactivate" ->
            Out([w EXCEPT !.users[rq.user].isActive = FALSE],
                Respond(rq, 200, "Account deactivated successfully"))

Step(w, rq, t) ==
    CASE rq.op = "create" -> createEntry(w, rq, t)
      [] rq.op = "update" -> updateEntry(w, rq, t)
      [] rq.op = "delete" -> deleteEntry(w, rq, t)
      [] rq.op = "get" -> getEntry(w, rq, t)
      [] rq.op = "list" -> getEntries(w, rq, t)
      [] rq.op = "deactivate" -> deactivateAccount(w, rq, t)
      [] rq.op = "stats" -> getStats(w, rq, t)
      [] rq.op = "calendar" -> getCalendar(w, rq, t)

\* a request handled with nothing else running in between
RECURSIVE Run(_, _, _)
Run(w, rq, t) ==
    IF rq.pc = "respond" THEN Out(w, rq)
    ELSE LET o == Step(w, rq, t) IN Run(o.w, o.rq, t)

-----------------------------------------------------------------------------
(* The state machine *)

Init ==
    /\ now = 0
    /\ entries = {}
    /\ nextId = 1
    /\ users = [u \in Users |-> NewUser]
    /\ created = [u \in Users |-> <<>>]
    /\ req = [r \in Reqs |-> Idle]

AllIdle == \A r \in Reqs : req[r].pc = "idle"

Commit(w) ==
    /\ entries' = w.entries
    /\ nextId' = w.nextId
    /\ users' = w.users
    /\ created' = w.created

\* the request as the route receives it
Request(op, pc, tok) == [Idle EXCEPT !.op = op, !.pc = pc, !.token = tok]

\* protect answers 401 and the handler never runs
Reject(r, op, tok) ==
    /\ req' = [req EXCEPT ![r] = Respond(Request(op, "protect", tok), 401,
                                          "Not authorized")]
    /\ UNCHANGED <<now, entries, nextId, users, created>>

\* the whole handler, from protect's next() to the response
Handle(r, rq) ==
    LET o == Run(World, rq, now)
    IN  /\ Commit(o.w)
        /\ req' = [req EXCEPT ![r] = o.rq]
        /\ UNCHANGED now

\* the dates a client may put in a payload or a query
ClientDates(maxT) == 0..maxT

CreateBodies(maxT) ==
    {[date |-> d, mood |-> "happy", intensity |-> 6, owner |-> "none"] :
        d \in {NoDate} \cup ClientDates(maxT)}
        \cup {[date |-> NoDate, mood |-> "happy", intensity |-> 6, owner |-> "B"],
              [date |-> NoDate, mood |-> "bogus", intensity |-> 6, owner |-> "none"]}

UpdateBodies(maxT) ==
    {[date |-> d, mood |-> "sad", intensity |-> 4, owner |-> o] :
        d \in {NoDate} \cup ClientDates(maxT), o \in {"none"} \cup Users}
        \cup {[date |-> NoDate, mood |-> "bogus", intensity |-> 4, owner |-> "none"]}

Pages == {0, DefaultPage, 2}

\* ?days= of GET /stats
StatsDays == {1, DefaultDays}

\* ?year=&month= of GET /calendar
CalendarQueries ==
    {[year |-> NoParam, month |-> NoParam],
     [year |-> 0, month |-> 1],
     [year |-> 0, month |-> MonthsPerYear]}

Limits == {0, 1, 2, DefaultLimit, MaxLimit + 1}

CreateEntry ==
    /\ AllIdle
    /\ \E tok \in Tokens :
        LET u == protect(World, tok)
        IN  IF u = "none" THEN Reject(1, "create", tok)
            ELSE /\ nextId <= MaxEntries
                 /\ \E b \in CreateBodies(MaxTime) :
                        Handle(1, [Request("create", "c_check", tok) EXCEPT
                                      !.user = u, !.date = b.date, !.mood = b.mood,
                                      !.intensity = b.intensity,
                                      !.owner = b.owner])

UpdateEntry ==
    /\ AllIdle
    /\ \E tok \in Tokens :
        LET u == protect(World, tok)
        IN  IF u = "none" THEN Reject(1, "update", tok)
            ELSE \E id \in 1..MaxEntries, b \in UpdateBodies(MaxTime) :
                    Handle(1, [Request("update", "u_find", tok) EXCEPT
                                  !.user = u, !.id = id, !.date = b.date,
                                  !.mood = b.mood, !.intensity = b.intensity,
                                  !.owner = b.owner])

DeleteEntry ==
    /\ AllIdle
    /\ \E tok \in Tokens :
        LET u == protect(World, tok)
        IN  IF u = "none" THEN Reject(1, "delete", tok)
            ELSE \E id \in 1..MaxEntries :
                    Handle(1, [Request("delete", "d_find", tok) EXCEPT
                                  !.user = u, !.id = id])

GetEntry ==
    /\ AllIdle
    /\ \E tok \in Tokens :
        LET u == protect(World, tok)
        IN  IF u = "none" THEN Reject(1, "get", tok)
            ELSE \E id \in 1..MaxEntries :
                    Handle(1, [Request("get", "g_find", tok) EXCEPT
                                  !.user = u, !.id = id])

GetEntries ==
    /\ AllIdle
    /\ \E tok \in Tokens :
        LET u == protect(World, tok)
        IN  IF u = "none" THEN Reject(1, "list", tok)
            ELSE \E p \in Pages, l \in Limits,
                    sd \in {NoDate, TicksPerDay}, ed \in {NoDate, TicksPerDay} :
                    Handle(1, [Request("list", "l_find", tok) EXCEPT
                                  !.user = u, !.page = p, !.limit = l,
                                  !.startDate = sd, !.endDate = ed])

GetStats ==
    /\ AllIdle
    /\ \E tok \in Tokens :
        LET u == protect(World, tok)
        IN  IF u = "none" THEN Reject(1, "stats", tok)
            ELSE \E d \in StatsDays, m \in Moods :
                    Handle(1, [Request("stats", "s_mood", tok) EXCEPT
                                  !.user = u, !.days = d, !.tie = m])

GetCalendar ==
    /\ AllIdle
    /\ \E tok \in Tokens :
        LET u == protect(World, tok)
        IN  IF u = "none" THEN Reject(1, "calendar", tok)
            ELSE \E q \in CalendarQueries :
                    Handle(1, [Request("calendar", "k_find", tok) EXCEPT
                                  !.user = u, !.year = q.year, !.month = q.month])

DeactivateAccount ==
    /\ AllIdle
    /\ \E tok \in Tokens :
        LET u == protect(World, tok)
        IN  IF u = "none" THEN Reject(1, "deactivate", tok)
            ELSE Handle(1, [Request("deactivate", "x_deactivate", tok) EXCEPT
                               !.user = u])

\* the response has been sent
Finish ==
    \E r \in Reqs :
        /\ req[r].pc = "respond"
        /\ req' = [req EXCEPT ![r] = Idle]
        /\ UNCHANGED <<now, entries, nextId, users, created>>

\* the clock advances between requests
Tick ==
    /\ AllIdle
    /\ now < MaxTime
    /\ now' = now + 1
    /\ UNCHANGED <<entries, nextId, users, created, req>>

Next ==
    \/ CreateEntry
    \/ UpdateEntry
    \/ DeleteEntry
    \/ GetEntry
    \/ GetEntries
    \/ GetStats
    \/ GetCalendar
    \/ DeactivateAccount
    \/ Finish
    \/ Tick

Spec == Init /\ [][Next]_vars

-----------------------------------------------------------------------------
(* The creation path of one user over a longer calendar: entries created
   with the default date, updated in place, deleted, day after day *)

StreakUser == "A"

StreakToken == [kind |-> "valid", sub |-> StreakUser]

CreateToday ==
    /\ AllIdle
    /\ nextId <= StreakMaxEntries
    /\ protect(World, StreakToken) = StreakUser
    /\ Handle(1, [Request("create", "c_check", StreakToken) EXCEPT
                     !.user = StreakUser, !.mood = "happy", !.intensity = 6])

UpdateOwn ==
    /\ AllIdle
    /\ protect(World, StreakToken) = StreakUser
    /\ \E id \in 1..StreakMaxEntries :
            Handle(1, [Request("update", "u_find", StreakToken) EXCEPT
                          !.user = StreakUser, !.id = id, !.mood = "sad",
                          !.intensity = 4])

DeleteOwn ==
    /\ AllIdle
    /\ protect(World, StreakToken) = StreakUser
    /\ \E id \in 1..StreakMaxEntries :
            Handle(1, [Request("delete", "d_find", StreakToken) EXCEPT
                          !.user = StreakUser, !.id = id])

TickLong ==
    /\ AllIdle
    /\ now < StreakMaxTime
    /\ now' = now + 1
    /\ UNCHANGED <<entries, nextId, users, created, req>>

NextStreak ==
    \/ CreateToday
    \/ UpdateOwn
    \/ DeleteOwn
    \/ Finish
    \/ TickLong

SpecStreak == Init /\ [][NextStreak]_vars

-----------------------------------------------------------------------------
(* The creation path of one user when a storage call may fail *)

\* the storage call of createEntry that rejects, if any
FailPoints == {"none", "c_check", "c_insert", "c_read", "c_save"}

CreateFailing ==
    /\ AllIdle
    /\ nextId <= StreakMaxEntries
    /\ protect(World, StreakToken) = StreakUser
    /\ \E f \in FailPoints :
            Handle(1, [Request("create", "c_check", StreakToken) EXCEPT
                          !.user = StreakUser, !.mood = "happy",
                          !.intensity = 6, !.fail = f])

NextFail ==
    \/ CreateFailing
    \/ Finish
    \/ TickLong

SpecFail == Init /\ [][NextFail]_vars

-----------------------------------------------------------------------------
(* Two createEntry requests in flight, their steps interleaved *)

\* the requests in flight that have not inserted their entry yet
InFlight == Cardinality({r \in Reqs : req[r].pc \in {"c_check", "c_insert"}})

Arrive(r) ==
    /\ req[r].pc = "idle"
    /\ \E tok \in Tokens :
        LET u == protect(World, tok)
        IN  IF u = "none" THEN Reject(r, "create", tok)
            ELSE /\ nextId + InFlight <= MaxEntries
                 /\ \E b \in CreateBodies(MaxTime) :
                        /\ req' = [req EXCEPT ![r] =
                                      [Request("create", "c_check", tok) EXCEPT
                                          !.user = u, !.date = b.date,
                                          !.mood = b.mood,
                                          !.intensity = b.intensity,
                                          !.owner = b.owner]]
                        /\ UNCHANGED <<now, entries, nextId, users, created>>

\* the request runs up to its next await
Proceed(r) ==
    /\ req[r].pc \notin {"idle", "respond"}
    /\ LET o == Step(World, req[r], now)
       IN  /\ Commit(o.w)
           /\ req' = [req EXCEPT ![r] = o.rq]
    /\ UNCHANGED now

\* the clock advances whatever is in flight
TickConc ==
    /\ now < MaxTime
    /\ now' = now + 1
    /\ UNCHANGED <<entries, nextId, users, created, req>>

NextConc ==
    \/ \E r \in Reqs : Arrive(r)
    \/ \E r \in Reqs : Proceed(r)
    \/ Finish
    \/ TickConc

SpecConc == Init /\ [][NextConc]_vars

-----------------------------------------------------------------------------
(* The createEntry requests of one user, two in flight at a time, over a
   longer calendar: each takes the default date, and its reads and writes
   of the user record interleave with the other's and with the clock *)

ArriveRace(r) ==
    /\ req[r].pc = "idle"
    /\ protect(World, StreakToken) = StreakUser
    /\ nextId + InFlight <= RaceMaxEntries
    /\ req' = [req EXCEPT ![r] =
                  [Request("create", "c_check", StreakToken) EXCEPT
                      !.user = StreakUser, !.mood = "happy", !.intensity = 6]]
    /\ UNCHANGED <<now, entries, nextId, users, created>>

TickRace ==
    /\ now < RaceMaxTime
    /\ now' = now + 1
    /\ UNCHANGED <<entries, nextId, users, created, req>>

NextRace ==
    \/ \E r \in Reqs : ArriveRace(r)
    \/ \E r \in Reqs : Proceed(r)
    \/ Finish
    \/ TickRace

SpecRace == Init /\ [][NextRace]_vars

-----------------------------------------------------------------------------
(* Properties *)

\* a request was received and answered in this step
Answered(r) == req[r].pc = "idle" /\ req'[r].pc = "respond"

(* C1: for every user and every calendar day, at most one stored entry has
   that owner and a date on that day. *)
C1_OneEntryPerUserDay ==
    \A e \in entries, f \in entries :
        (e.user = f.user /\ Day(e.date) = Day(f.date)) => e = f

(* C2: of two createEntry requests of one user that both take the default
   date and run concurrently, at most one persists an entry on a given
   calendar day. *)
C2_ConcurrentCreateOnePersists ==
    \A r1 \in Reqs, r2 \in Reqs :
        ( /\ r1 # r2
          /\ req[r1].op = "create" /\ req[r2].op = "create"
          /\ req[r1].user = req[r2].user
          /\ req[r1].date = NoDate /\ req[r2].date = NoDate
          /\ req[r1].data # <<>> /\ req[r2].data # <<>> )
        => Day(req[r1].data[1].date) # Day(req[r2].data[1].date)

(* C3: the streak update of a successful creation: with no last-entry date
   current = longest = 1; last entry the day before today, current grows by
   exactly 1; last entry two or more days before today, current = 1.  So
   creations on three consecutive days give current = 3, longest = 3, and a
   creation two days later gives current = 1 with longest still 3. *)
C3_Cases ==
    \A u \in Users :
        created'[u] # created[u] =>
            LET s == users[u].streak
                n == users'[u].streak
                today == Day(now)
            IN  /\ s.lastEntryDate = NoDate => (n.current = 1 /\ n.longest = 1)
                /\ (s.lastEntryDate # NoDate /\ Day(s.lastEntryDate) = today - 1)
                        => n.current = s.current + 1
                /\ (s.lastEntryDate # NoDate /\ Day(s.lastEntryDate) <= today - 2)
                        => n.current = 1

C3_Example ==
    \A u \in Users, d \in 0..Day(StreakMaxTime) :
        /\ created[u] = <<d, d + 1, d + 2>>
                => (users[u].streak.current = 3 /\ users[u].streak.longest = 3)
        /\ created[u] = <<d, d + 1, d + 2, d + 4>>
                => (users[u].streak.current = 1 /\ users[u].streak.longest = 3)

C3_StreakUpdate == []C3_Example /\ [][C3_Cases]_vars

C3_Witness ==
    \E d \in 0..Day(StreakMaxTime) :
        /\ created[StreakUser] = <<d, d + 1, d + 2, d + 4>>
        /\ users[StreakUser].streak.current = 1
        /\ users[StreakUser].streak.longest = 3

(* C4: the stored streak.longest of a user never decreases from one state
   to the next, whatever the operation (create, update, delete, a streak
   reset after a gap). *)
C4_LongestNeverDecreases ==
    [][\A u \in Users :
          users'[u].streak.longest >= users[u].streak.longest]_vars

C4_Witness ==
    /\ Len(created[StreakUser]) = 3
    /\ users[StreakUser].streak.current = 1
    /\ users[StreakUser].streak.longest = 2

(* C5: a getById, update or delete request of user A that names an entry
   owned by another user B leaves B's entry stored and unchanged, and is
   answered 404 when its payload passes validation (an update whose payload
   fails validation is answered 400 before the entry is looked up). *)
ForeignEntry(e) ==
    /\ Answered(1)
    /\ req'[1].op \in {"get", "update", "delete"}
    /\ req'[1].user \in Users
    /\ req'[1].id = e.id
    /\ e.user # req'[1].user

C5_ForeignEntryUntouched ==
    [][\A e \in entries :
          ForeignEntry(e) =>
              /\ e \in entries'
              /\ entries' = entries
              /\ req'[1].data = <<>>
              /\ IF req'[1].op = "update" /\ req'[1].mood \notin Moods
                 THEN req'[1].status = 400
                 ELSE req'[1].status = 404]_vars

\* C5 as written: every such request is answered 404
C5_ForeignEntryAlways404 ==
    [][\A e \in entries :
          ForeignEntry(e) => (req'[1].status = 404 /\ entries' = entries)]_vars

C5_Witness ==
    /\ req[1].pc = "respond"
    /\ req[1].op = "update"
    /\ req[1].status = 404
    /\ req[1].date # NoDate
    /\ \E e \in entries : e.id = req[1].id /\ e.user # req[1].user

(* C6: the handler of a protected route runs only for a bearer token that
   verifies and names an existing user whose active flag is set; every
   other request is answered 401 and changes no entry and no user. *)
C6_ProtectGuardsHandlers ==
    [][Answered(1) =>
          LET tok == req'[1].token
              ok == /\ tok.kind = "valid"
                    /\ tok.sub \in Users
                    /\ users[tok.sub].isActive
          IN  IF ok
              THEN req'[1].user = tok.sub /\ req'[1].status # 401
              ELSE /\ req'[1].status = 401
                   /\ req'[1].user = "none"
                   /\ entries' = entries
                   /\ users' = users
                   /\ nextId' = nextId]_vars

C6_Witness ==
    /\ req[1].pc = "respond"
    /\ req[1].status = 401
    /\ req[1].token.kind = "valid"
    /\ req[1].token.sub \in Users
    /\ ~users[req[1].token.sub].isActive
    /\ entries # {}

(* C7: a create request of a user who already has an entry dated on the
   current calendar day is answered 400 (the duplicate-day conflict, when
   the payload is valid), persists no entry and leaves the user's streak
   triple unchanged. *)
C7_DuplicateDayRejected ==
    [][(Answered(1) /\ req'[1].op = "create" /\ req'[1].user \in Users
            /\ \E e \in entries :
                    e.user = req'[1].user /\ Day(e.date) = Day(now))
        => /\ req'[1].status = 400
           /\ req'[1].mood \in Moods
                => req'[1].msg = "Mood entry already exists for today"
           /\ entries' = entries
           /\ nextId' = nextId
           /\ users' = users]_vars

C7_Witness ==
    /\ req[1].pc = "respond"
    /\ req[1].op = "create"
    /\ req[1].msg = "Mood entry already exists for today"
    /\ \E e \in entries :
            e.user = req[1].user /\ Day(e.date) = Day(now) /\ e.date # now

(* C8: no create and no update ever persists an entry whose date is later
   than the time of the write. *)
C8_NoFutureDateWritten ==
    [][\A e \in entries' : e \notin entries => e.date <= now]_vars

(* C9: a list request with page p >= 1 and limit l >= 1 of a user with T
   entries matching the filter returns exactly min(l, max(0, T - (p-1)*l))
   entries, total = T and pages = ceil(T / l); only the caller's entries
   are counted or returned. *)
C9_Total(rq) ==
    Cardinality({e \in entries :
        /\ e.user = rq.user
        /\ (rq.startDate # NoDate => e.date >= rq.startDate)
        /\ (rq.endDate # NoDate => e.date <= rq.endDate)})

C9_Pagination ==
    \A r \in Reqs :
        LET rq == req[r]
            T == C9_Total(rq)
        IN  ( /\ rq.pc = "respond" /\ rq.op = "list" /\ rq.user \in Users
              /\ rq.page >= 1 /\ rq.limit >= 1 )
            => /\ rq.status = 200
               /\ Len(rq.data) = Min(rq.limit, Max(0, T - (rq.page - 1) * rq.limit))
               /\ rq.total = T
               /\ rq.pages * rq.limit >= T
               /\ (rq.pages - 1) * rq.limit < T \/ (T = 0 /\ rq.pages = 0)
               /\ \A i \in 1..Len(rq.data) :
                      /\ rq.data[i] \in entries
                      /\ rq.data[i].user = rq.user
                      /\ \A j \in 1..Len(rq.data) :
                            i # j => rq.data[i] # rq.data[j]

C9_Witness ==
    /\ req[1].pc = "respond"
    /\ req[1].op = "list"
    /\ req[1].page = 2
    /\ req[1].limit = 1
    /\ req[1].total = 2
    /\ req[1].pages = 2
    /\ Len(req[1].data) = 1

(* C10: no list request whose limit is outside [1, 100] or whose page is
   below 1 is answered successfully. *)
C10_PaginationBounded ==
    \A r \in Reqs :
        (req[r].pc = "respond" /\ req[r].op = "list" /\ req[r].status = 200)
            => (req[r].limit >= 1 /\ req[r].limit <= MaxLimit /\ req[r].page >= 1)

(* C11: the mood distribution of a statistics request has exactly one row
   per mood occurring among the caller's entries dated within the trailing
   window (from days before the query time up to the query time); a row's
   count is the number of those entries with that mood, its average is the
   mean of their intensities (to two decimals), rows come in non-increasing
   order of count, and entries of other users or outside the window
   contribute nothing. *)
C11_Window(rq) ==
    {e \in entries : /\ e.user = rq.user
                     /\ e.date >= now - rq.days * TicksPerDay
                     /\ e.date <= now}

C11_MoodStats ==
    \A r \in Reqs :
        LET rq == req[r]
            W == C11_Window(rq)
            rows == rq.data
        IN  (rq.pc = "respond" /\ rq.op = "stats" /\ rq.status = 200)
            => /\ \A m \in Moods :
                    LET of == {e \in W : e.mood = m}
                        at == {i \in 1..Len(rows) : rows[i].mood = m}
                    IN  /\ Cardinality(at) = (IF of = {} THEN 0 ELSE 1)
                        /\ \A i \in at :
                              /\ rows[i].count = Cardinality(of)
                              /\ 2 * (100 * SumIntensity(of)
                                        - rows[i].avgIntensity * rows[i].count)
                                    <= rows[i].count
                              /\ 2 * (rows[i].avgIntensity * rows[i].count
                                        - 100 * SumIntensity(of))
                                    <= rows[i].count
               /\ \A i \in 1..Len(rows) : rows[i].mood \in Moods
               /\ \A i \in 1..Len(rows), j \in 1..Len(rows) :
                    i < j => rows[i].count >= rows[j].count

(* C12: the streak triple of a user changes only in a step that answers a
   create request of that user with 201, and in that step the streak update
   is applied exactly once; every other answered request (update, delete,
   get, list, statistics, calendar, deactivate, a rejected creation, a 401)
   leaves every user's triple unchanged. *)
C12_Created(u) ==
    /\ Answered(1)
    /\ req'[1].op = "create"
    /\ req'[1].user = u
    /\ req'[1].status = 201

C12_StreakOnlyOnCreation ==
    [][\A u \in Users :
          /\ users'[u].streak # users[u].streak => C12_Created(u)
          /\ C12_Created(u) =>
                /\ users'[u].streak = updateStreak(users[u].streak, now)
                /\ created'[u] = Append(created[u], Day(now))
          /\ ~C12_Created(u) => created'[u] = created[u]]_vars

C12_Witness ==
    /\ req[1].pc = "respond"
    /\ req[1].op = "delete"
    /\ req[1].status = 200
    /\ users[req[1].user].streak.current = 1
    /\ \A e \in entries : e.user # req[1].user

(* C13: the same-day branch of the streak update is reachable.  A creation
   of a user whose recorded lastEntryDate is on the current calendar day
   succeeds only when no stored entry of that user is dated on that day
   (the day's earlier entry was deleted, moved to another day or owner, or
   created with another date); the branch leaves current and longest as
   they were and sets lastEntryDate to the time of the creation. *)
SameDayCreation(u) ==
    /\ Answered(1)
    /\ req'[1].op = "create"
    /\ req'[1].user = u
    /\ req'[1].status = 201
    /\ users[u].streak.lastEntryDate # NoDate
    /\ Day(users[u].streak.lastEntryDate) = Day(now)

C13_SameDayBranch ==
    [][\A u \in Users :
          SameDayCreation(u) =>
              /\ \A e \in entries : e.user = u => Day(e.date) # Day(now)
              /\ users'[u].streak.current = users[u].streak.current
              /\ users'[u].streak.longest = users[u].streak.longest
              /\ users'[u].streak.lastEntryDate = now]_vars

\* C13 as written: no creation finds lastEntryDate on the current day
C13_SameDayBranchUnreachable ==
    [][\A u \in Users : ~SameDayCreation(u)]_vars

C13_Witness ==
    /\ req[1].pc = "respond"
    /\ req[1].op = "create"
    /\ req[1].status = 201
    /\ LET log == created[req[1].user]
       IN  /\ Len(log) = 2
           /\ log[1] = Day(now)
           /\ log[2] = Day(now)
    /\ Cardinality({e \in entries : e.user = req[1].user}) = 1
    /\ users[req[1].user].streak.current = 1
    /\ users[req[1].user].streak.lastEntryDate = now

(* C14: in every state a user's streak.current equals the number of
   consecutive calendar days, the last of them today or yesterday, on each
   of which the user created exactly one entry (0 when neither today nor
   yesterday is such a day). *)
CreatedOn(u, d) == Cardinality({i \in 1..Len(created[u]) : created[u][i] = d})

RECURSIVE RunEndingOn(_, _)
RunEndingOn(u, d) ==
    IF d < 0 \/ CreatedOn(u, d) # 1 THEN 0
    ELSE 1 + RunEndingOn(u, d - 1)

C14_CurrentIsRunOfDays ==
    \A u \in Users :
        users[u].streak.current =
            IF CreatedOn(u, Day(now)) = 1
            THEN RunEndingOn(u, Day(now))
            ELSE RunEndingOn(u, Day(now) - 1)

(* C15: an update by the owner whose payload sets date to a calendar day on
   which another entry of that user is stored is answered 400 (the
   selected-date conflict, when the payload is valid) and changes no entry;
   an update whose date is on a day with no other entry of that user, the
   entry's own day included, is not answered with that conflict, and with a
   valid payload that keeps the owner it is answered 200 and stores the new
   date. *)
DateUpdate(e) ==
    /\ Answered(1)
    /\ req'[1].op = "update"
    /\ req'[1].id = e.id
    /\ req'[1].user = e.user
    /\ req'[1].date # NoDate

OtherOnDay(e, d) ==
    \E f \in entries : f.user = e.user /\ f.id # e.id /\ Day(f.date) = Day(d)

C15_DateRecheck ==
    [][\A e \in entries :
          DateUpdate(e) =>
              LET rq == req'[1]
                  conflict == "Mood entry already exists for the selected date"
              IN  IF OtherOnDay(e, rq.date)
                  THEN /\ rq.status = 400
                       /\ ValidBody(rq) => rq.msg = conflict
                       /\ entries' = entries
                  ELSE /\ rq.msg # conflict
                       /\ (ValidBody(rq) /\ rq.owner = "none") =>
                             /\ rq.status = 200
                             /\ entries' = (entries \ {e}) \cup
                                    {[e EXCEPT !.date = rq.date,
                                               !.mood = rq.mood,
                                               !.moodIntensity = rq.intensity]}]_vars

C15_Witness ==
    /\ req[1].pc = "respond"
    /\ req[1].op = "update"
    /\ req[1].status = 400
    /\ req[1].msg = "Mood entry already exists for the selected date"
    /\ \E e \in entries, f \in entries :
          /\ e.id = req[1].id
          /\ e.user = req[1].user
          /\ f.user = e.user
          /\ f.id # e.id
          /\ Day(f.date) # Day(e.date)
          /\ Day(f.date) = Day(req[1].date)
          /\ f.date # req[1].date

(* C16: a calendar request is answered with exactly one row for every entry
   of the caller dated in the target month, from the first instant of its
   first day through the last instant of its last day (the current month
   when year or month is absent), and with no row for any entry outside
   that month or of another user. *)
C16_InMonth(rq) ==
    LET given == rq.year # NoParam /\ rq.month # NoParam
        y == IF given THEN rq.year ELSE YearOf(now)
        m == IF given THEN rq.month ELSE MonthOf(now)
    IN  {e \in entries : /\ e.user = rq.user
                         /\ e.date >= MonthStart(y, m)
                         /\ e.date < MonthStart(y, m + 1)}

C16_CalendarRows ==
    \A r \in Reqs :
        LET rq == req[r]
            S == C16_InMonth(rq)
        IN  (rq.pc = "respond" /\ rq.op = "calendar" /\ rq.user \in Users)
            => /\ rq.status = 200
               /\ Len(rq.data) = Cardinality(S)
               /\ \A e \in S : \E i \in 1..Len(rq.data) :
                                    rq.data[i] = CalendarRow(e)
               /\ \A i \in 1..Len(rq.data) : \E e \in S :
                                    rq.data[i] = CalendarRow(e)

(* C17: a create request that is answered with an error, a storage failure
   at any step included, has persisted no entry and left the streak as it
   was; one that is answered 201 has persisted the entry and the streak
   update. *)
C17_NoPartialFailure ==
    [][(Answered(1) /\ req'[1].op = "create" /\ req'[1].user \in Users)
        => LET u == req'[1].user
           IN  IF req'[1].status = 201
               THEN /\ \E e \in entries' : e \notin entries /\ e.user = u
                    /\ users'[u].streak = updateStreak(users[u].streak, now)
               ELSE /\ entries' = entries
                    /\ users' = users]_vars

(* C18: in every state of a user record longest >= current >= 0, and once
   lastEntryDate is set current and longest are both at least 1, whatever
   the pattern of creations and however the reads and saves of concurrent
   streak updates interleave. *)
C18_StreakWellFormed ==
    \A u \in Users :
        LET s == users[u].streak
        IN  /\ s.longest >= s.current
            /\ s.current >= 0
            /\ s.lastEntryDate # NoDate => (s.current >= 1 /\ s.longest >= 1)

(* C19: the owner of a stored entry never changes: a create stores the
   authenticated caller as owner whatever user field its payload carries,
   and no update, whatever its payload (a user field included), changes
   the owner of an entry. *)
C19_OwnerNeverChanges ==
    [][/\ \A e \in entries, f \in entries' : f.id = e.id => f.user = e.user
       /\ \A f \in entries' :
            (\A e \in entries : e.id # f.id) => f.user = req'[1].user]_vars

(* C20: streak.current of a user grows by at most 1 per calendar day under
   every interleaving of the streak updates of concurrent create requests;
   starting from 0, it is therefore never more than the number of calendar
   days that have begun. *)
C20_AtMostOnePerDay ==
    \A u \in Users : users[u].streak.current <= Day(now) + 1

====
